---- MODULE Spec2Model ----
(***************************************************************************)
(* Model of Temmp.py: a flat sequence of setup statements (imports, the    *)
(* warning filter, the matplotlib backend calls, the seaborn style call,   *)
(* the `%matplotlib inline` magic, RANDOM_STATE and the final print).      *)
(*                                                                         *)
(* The program counter pc holds the source line of the next statement.     *)
(* The file is executed either by the Python interpreter (env = "python")  *)
(* or as a cell of an IPython notebook session (env = "notebook"); the     *)
(* libraries that can be imported are the set avail.  Both are fixed when  *)
(* the session starts.  The same session may execute the file again.       *)
(*                                                                         *)
(* The variables prevConfig, prevStdout and prevStatus are history         *)
(* variables: they record the session at the moment a run is started and   *)
(* are read by the properties only.                                        *)
(***************************************************************************)
EXTENDS Integers, Sequences, FiniteSets

VARIABLES env, avail, run, pc, status, error, count,
          modules, globals, filters, backend, style, stdout,
          prevConfig, prevStdout, prevStatus

vars == <<env, avail, run, pc, status, error, count,
          modules, globals, filters, backend, style, stdout,
          prevConfig, prevStdout, prevStatus>>

\* Number of times the file is executed in one session.
MaxRuns == 2

Envs == {"python", "notebook"}

\* Third-party distributions the statements need.
Libs == {"numpy", "pandas", "matplotlib", "seaborn", "sklearn", "matplotlib_inline"}

\* Source lines of the statements, in source order.
Lines == {2, 3, 5, 6, 7, 8, 9, 10, 12, 13, 15, 16, 17, 20, 23, 25}

\* pc before the file has been compiled, and after the last statement.
Start == 0
End == 26

\* Names the statements bind in the module namespace.
Names == {"warnings", "np", "pd", "matplotlib", "plt", "sns",
          "train_test_split", "LinearRegression", "r2_score",
          "mean_squared_error", "RANDOM_STATE"}

Unbound == [kind |-> "unbound", val |-> 0]
ModuleObj == [kind |-> "module", val |-> 0]
FunctionObj == [kind |-> "function", val |-> 0]
IntObj(n) == [kind |-> "int", val |-> n]

Confirmation == "Libraries imported and backend configured."

\* The filter installed by warnings.filterwarnings('ignore').
IgnoreAll == [action |-> "ignore", category |-> "Warning", module |-> ""]
\* A filter a session may already hold when the file is executed.
DeprecationDefault == [action |-> "default", category |-> "DeprecationWarning", module |-> "__main__"]

InitialFilters == {<< >>, <<DeprecationDefault>>}
InitialBackends == {"auto", "inline"}

\* The first statement below line l, End when there is none.
Following(l) ==
    IF \E k \in Lines : k > l
    THEN CHOOSE k \in Lines : k > l /\ \A j \in Lines : j > l => k <= j
    ELSE End

\* The statement executed after the statement at line l: the file has no
\* branch and no loop, control falls through to the following statement.
NextLineSkips(l) == IF l = 20 THEN End ELSE Following(l)
NextLineReordered(l) ==
    IF l = 7 THEN 9 ELSE IF l = 9 THEN 8 ELSE IF l = 8 THEN 10 ELSE Following(l)
NextLine(l) == Following(l)

\* warnings.filterwarnings(action): the filter goes to the front of the
\* list, and an equal filter already in the list is removed first.
filterwarningsNoDedupe(fs, item) == <<item>> \o fs
filterwarningsAppend(fs, item) == SelectSeq(fs, LAMBDA f : f # item) \o <<item>>
filterwarnings(fs, item) == <<item>> \o SelectSeq(fs, LAMBDA f : f # item)

\* The statement at line l completes.
Complete(l) ==
    /\ pc' = NextLine(l)
    /\ count' = [count EXCEPT ![l] = @ + 1]
    /\ status' = IF NextLine(l) = End THEN "done" ELSE "running"
    /\ error' = error

\* The statement at pc raises exc: nothing catches it, the run ends there.
RaiseSwallowed(exc) ==
    /\ pc' = NextLine(pc)
    /\ status' = IF NextLine(pc) = End THEN "done" ELSE "running"
    /\ error' = exc
    /\ count' = count
Raise(exc) ==
    /\ status' = "error"
    /\ error' = exc
    /\ pc' = pc
    /\ count' = count

Bind(names, obj) == [n \in Names |-> IF n \in names THEN obj ELSE globals[n]]

At(l) == pc = l /\ status = "running"

\* The file is compiled as a whole before its first statement runs.  Line 20
\* is not Python: the interpreter rejects the file, a notebook rewrites the
\* line to a call of the matplotlib line magic.
Compile ==
    /\ At(Start)
    /\ IF env = "python"
       THEN Raise("SyntaxError")
       ELSE /\ pc' = NextLine(Start)
            /\ UNCHANGED <<status, error, count>>
    /\ UNCHANGED <<env, avail, run, modules, globals, filters, backend, style,
                   stdout, prevConfig, prevStdout, prevStatus>>

\* import <lib> / from <lib> import <names> at line l.
Import(l, lib, names, obj) ==
    /\ At(l)
    /\ IF lib \in avail \cup {"warnings"}
       THEN /\ Complete(l)
            /\ modules' = modules \cup {lib}
            /\ globals' = Bind(names, obj)
       ELSE /\ Raise("ModuleNotFoundError")
            /\ UNCHANGED <<modules, globals>>
    /\ UNCHANGED <<env, avail, run, filters, backend, style, stdout,
                   prevConfig, prevStdout, prevStatus>>

ImportWarnings == Import(2, "warnings", {"warnings"}, ModuleObj)

FilterWarnings ==
    /\ At(3)
    /\ Complete(3)
    /\ filters' = filterwarnings(filters, IgnoreAll)
    /\ UNCHANGED <<env, avail, run, modules, globals, backend, style, stdout,
                   prevConfig, prevStdout, prevStatus>>

ImportNumpy == Import(5, "numpy", {"np"}, ModuleObj)
ImportPandas == Import(6, "pandas", {"pd"}, ModuleObj)
ImportMatplotlib == Import(7, "matplotlib", {"matplotlib"}, ModuleObj)

\* Selecting a backend by name.
SetBackendKeeps(name) == backend' = backend
SetBackend(name) == backend' = name

MatplotlibUse ==
    /\ At(8)
    /\ Complete(8)
    /\ SetBackend("Agg")
    /\ UNCHANGED <<env, avail, run, modules, globals, filters, style, stdout,
                   prevConfig, prevStdout, prevStatus>>

ImportPyplot == Import(9, "matplotlib", {"plt"}, ModuleObj)

SwitchBackend ==
    /\ At(10)
    /\ Complete(10)
    /\ SetBackend("Agg")
    /\ UNCHANGED <<env, avail, run, modules, globals, filters, style, stdout,
                   prevConfig, prevStdout, prevStatus>>

ImportSeaborn == Import(12, "seaborn", {"sns"}, ModuleObj)

SnsSet ==
    /\ At(13)
    /\ Complete(13)
    /\ style' = "whitegrid"
    /\ UNCHANGED <<env, avail, run, modules, globals, filters, backend, stdout,
                   prevConfig, prevStdout, prevStatus>>

ImportTrainTestSplit == Import(15, "sklearn", {"train_test_split"}, FunctionObj)
ImportLinearRegression == Import(16, "sklearn", {"LinearRegression"}, FunctionObj)
ImportMetrics == Import(17, "sklearn", {"r2_score", "mean_squared_error"}, FunctionObj)

\* %matplotlib inline: the notebook activates its inline backend.
MatplotlibInline ==
    /\ At(20)
    /\ IF "matplotlib_inline" \in avail
       THEN /\ Complete(20)
            /\ SetBackend("inline")
            /\ modules' = modules \cup {"matplotlib_inline"}
       ELSE /\ Raise("ModuleNotFoundError")
            /\ UNCHANGED <<backend, modules>>
    /\ UNCHANGED <<env, avail, run, globals, filters, style, stdout,
                   prevConfig, prevStdout, prevStatus>>

AssignRandomStateUnseeded ==
    /\ At(23)
    /\ Complete(23)
    /\ globals' = Bind({"RANDOM_STATE"}, IntObj(0))
    /\ UNCHANGED <<env, avail, run, modules, filters, backend, style, stdout,
                   prevConfig, prevStdout, prevStatus>>
AssignRandomState ==
    /\ At(23)
    /\ Complete(23)
    /\ globals' = Bind({"RANDOM_STATE"}, IntObj(42))
    /\ UNCHANGED <<env, avail, run, modules, filters, backend, style, stdout,
                   prevConfig, prevStdout, prevStatus>>

WriteTwice(out) == out \o <<Confirmation, Confirmation>>
WriteConfirmation(out) == Append(out, Confirmation)

PrintConfirmation ==
    /\ At(25)
    /\ Complete(25)
    /\ stdout' = WriteConfirmation(stdout)
    /\ UNCHANGED <<env, avail, run, modules, globals, filters, backend, style,
                   prevConfig, prevStdout, prevStatus>>

\* The configuration a run leaves in the session.
Config == [filters |-> filters, backend |-> backend, style |-> style,
           RANDOM_STATE |-> globals["RANDOM_STATE"]]

\* The file is executed again in the same session.
Rerun ==
    /\ status \in {"done", "error"}
    /\ run < MaxRuns
    /\ run' = run + 1
    /\ pc' = Start
    /\ status' = "running"
    /\ error' = "none"
    /\ count' = [l \in Lines |-> 0]
    /\ prevConfig' = Config
    /\ prevStdout' = stdout
    /\ prevStatus' = status
    /\ UNCHANGED <<env, avail, modules, globals, filters, backend, style, stdout>>

Init ==
    /\ env \in Envs
    /\ avail \in SUBSET Libs
    /\ run = 1
    /\ pc = Start
    /\ status = "running"
    /\ error = "none"
    /\ count = [l \in Lines |-> 0]
    /\ modules = {}
    /\ globals = [n \in Names |-> Unbound]
    /\ filters \in InitialFilters
    /\ backend \in InitialBackends
    /\ style = "default"
    /\ stdout = << >>
    /\ prevConfig = [filters |-> filters, backend |-> backend, style |-> "default",
                     RANDOM_STATE |-> Unbound]
    /\ prevStdout = << >>
    /\ prevStatus = "none"

Next ==
    \/ Compile
    \/ ImportWarnings
    \/ FilterWarnings
    \/ ImportNumpy
    \/ ImportPandas
    \/ ImportMatplotlib
    \/ MatplotlibUse
    \/ ImportPyplot
    \/ SwitchBackend
    \/ ImportSeaborn
    \/ SnsSet
    \/ ImportTrainTestSplit
    \/ ImportLinearRegression
    \/ ImportMetrics
    \/ MatplotlibInline
    \/ AssignRandomState
    \/ PrintConfirmation
    \/ Rerun

Spec == Init /\ [][Next]_vars

TypeOK ==
    /\ env \in Envs
    /\ avail \subseteq Libs
    /\ run \in 1..MaxRuns
    /\ pc \in Lines \cup {Start, End}
    /\ status \in {"running", "done", "error"}
    /\ error \in {"none", "SyntaxError", "ModuleNotFoundError"}
    /\ backend \in {"auto", "Agg", "inline"}
    /\ style \in {"default", "whitegrid"}

(***************************************************************************)
(* Properties                                                              *)
(***************************************************************************)

\* The statement at line l has completed in the current run.
Done(l) == count[l] >= 1

SetupLines == Lines \ {25}
ThirdParty == Libs

\* The ignore-everything filter is the first filter of the list, so it
\* decides every warning.
IgnoreInForce == Len(filters) > 0 /\ filters[1] = IgnoreAll

\* C1 (as stated): whenever every required library is available, a run raises
\* no error: it executes every statement through line 25 and ends having
\* written the confirmation string.
C1_Original == (avail = Libs) => status # "error"

\* C2: in every run the confirmation string is written at most once, only
\* after every setup statement of that run has completed, and the run writes
\* nothing else to standard output.
C2_PrintOnceAfterSetup ==
    /\ stdout = (IF Done(25) THEN Append(prevStdout, Confirmation) ELSE prevStdout)
    /\ Done(25) => \A l \in SetupLines : Done(l)
    /\ \A i \in 1..Len(stdout) : stdout[i] = Confirmation
    /\ Len(stdout) <= run
C2_Witness ==
    run = 2 /\ status = "done" /\ Done(25) /\ stdout = <<Confirmation, Confirmation>>

\* C3: a failing import or configuration step ends the run in error at that
\* step: the step is not completed, no later statement runs, the step is not
\* retried, the error is the one raised, and the run prints nothing.
C3_ErrorStopsRun ==
    /\ [](error # "none" <=> status = "error")
    /\ [](status = "error" =>
            /\ pc # End
            /\ \A l \in Lines : l >= pc => count[l] = 0
            /\ stdout = prevStdout)
    /\ [][status = "error" =>
            \/ run' = run + 1
            \/ /\ pc' = pc /\ count' = count /\ error' = error
               /\ status' = status /\ stdout' = stdout]_vars
C3_Witness ==
    /\ status = "error" /\ error = "ModuleNotFoundError" /\ pc = 12
    /\ Done(10) /\ ~Done(12) /\ ~Done(25)

\* C4 (as stated): when the confirmation string is printed, the active
\* plotting backend is 'Agg'.
C4_Original == Done(25) => backend = "Agg"
\* C4 (amended): 'Agg' is the active backend from line 10 until the magic
\* directive of line 20 runs; line 20 replaces it, and when the confirmation
\* string is printed the active backend is the notebook's inline backend.
C4_AggUntilInline ==
    /\ (Done(10) /\ ~Done(20)) => backend = "Agg"
    /\ Done(20) => backend = "inline"
    /\ Done(25) => backend = "inline"
C4_Witness == Done(25) /\ status = "done" /\ backend = "inline" /\ Done(8) /\ Done(10)

C7_RandomState42 ==
    /\ [](\A n \in Names : globals[n].kind = "int" => n = "RANDOM_STATE")
    /\ [](count[23] <= 1)
    /\ [](Done(23) => globals["RANDOM_STATE"] = IntObj(42))
    /\ [](globals["RANDOM_STATE"] \in {Unbound, IntObj(42)})
    /\ [][globals["RANDOM_STATE"] = IntObj(42) => globals'["RANDOM_STATE"] = IntObj(42)]_vars
C7_Witness ==
    Done(25) /\ globals["RANDOM_STATE"] = IntObj(42) /\ count[23] = 1

\* C8: within one run each statement executes at most once and in source
\* order: a statement has run only if every earlier statement has run, and
\* the single program counter is past exactly the statements that have run.
C8_Sequential ==
    /\ \A l \in Lines : count[l] <= 1
    /\ \A l \in Lines : Done(l) => \A k \in Lines : k < l => Done(k)
    /\ \A l \in Lines : Done(l) <=> l < pc
C8_Witness == pc = 20 /\ status = "running" /\ Done(17) /\ ~Done(20)

\* C9: matplotlib.use('Agg') runs after matplotlib is imported and before
\* pyplot is imported; plt.switch_backend('Agg') runs after pyplot is imported
\* and before seaborn is imported and styled; the style call runs with the
\* backend already set to 'Agg'.
C9_BackendBeforeStyle ==
    /\ Done(8) => Done(7) /\ "matplotlib" \in modules
    /\ Done(9) => Done(8)
    /\ Done(10) => Done(9) /\ globals["plt"] = ModuleObj
    /\ Done(12) => Done(10)
    /\ Done(13) => Done(12) /\ Done(10) /\ Done(8)
    /\ pc \in {9, 10} => backend = "Agg"
    /\ pc \in {12, 13} => backend = "Agg"
    /\ (style = "whitegrid" /\ run = 1) => Done(13)
C9_Witness == pc = 13 /\ status = "running" /\ backend = "Agg" /\ style = "default"

====
